---- MODULE Spec2Model ----
(***************************************************************************)
(* AccumulatingProcessor (src/mod.ts): items submitted with process() are  *)
(* accumulated into a batch; release(), flush(), a count/size threshold or *)
(* the delay timer hands the batch to the processing function; the result  *)
(* of that invocation is mapped back onto the item promises.               *)
(*                                                                         *)
(* process(), release(), flush() and a timer callback run to completion    *)
(* (one action each).  The promise reactions of a released batch are the   *)
(* steps Settle (then/catch), Finally (batch.resolve) and Delete           *)
(* (#all.delete); user code may run between any two of them.               *)
(***************************************************************************)
EXTENDS Integers, Sequences, FiniteSets

VARIABLES
    args,       \* the arguments of the constructor
    failure,    \* what the constructor threw, NoFailure when it returned
    options,    \* #options: the validated thresholds
    fn,         \* what the processing function returns when it does not fail
    current,    \* #current: id of the accumulating batch, None when undefined
    batches,    \* every Batch object created so far, by id (creation order)
    all,        \* #all: ids of the batches in the registry
    calls,      \* history: the invocations of fn, in order, and what caused each
    accepted,   \* history: the items process() enqueued, in order
    flushes,    \* the promises returned by flush()
    now,        \* the clock setTimeout runs on
    thrown      \* the item process() rejected in the last step, NoItem otherwise

vars == <<args, failure, options, fn, current, batches, all, calls, accepted,
          flushes, now, thrown>>

----------------------------------------------------------------------------
(* Bounds *)

MaxItems == 3       \* items enqueued per run
MaxFlush == 1       \* flush() calls per run
MaxTime  == 1       \* clock ticks per run
CountMax == 2       \* largest count.max tried
DelayMax == 1       \* largest delay.max tried
SizeMax  == 2       \* largest size.max tried
MaxResults == 2     \* longest array the processing function returns

None == 0           \* `undefined` where a batch id is expected
Absent == -1        \* an option that is not configured

----------------------------------------------------------------------------
(* Values *)

Undefined == "undefined"
Null == "null"

\* The Error instances: "E1", returned by a processing function for an item,
\* and "XE", thrown by a result whose lookup fails.
ErrorValues == {"E1", "XE"}

\* What a processing function throws or rejects with.
DispatchErrors == {"F1"}

\* x instanceof Error
IsError(x) == x \in ErrorValues

\* ThresholdOptions as validateOptions returns them: each threshold absent
\* or present, size.strict defaulted to TRUE.
NoSize == [max |-> Absent, strict |-> TRUE]

Options ==
    [count : {Absent, 1, CountMax},
     delay : {Absent, 0, DelayMax},
     size : {NoSize} \cup [max : {0, SizeMax}, strict : BOOLEAN]]

NoOptions == [count |-> Absent, delay |-> Absent, size |-> NoSize]

\* Every threshold configured, at its largest value, oversized items allowed.
AllOptions ==
    [count |-> CountMax, delay |-> DelayMax,
     size |-> [max |-> SizeMax, strict |-> FALSE]]

\* The configurations run with the accumulation steps: every combination of
\* thresholds, a delay being combined with a size threshold in AllOptions
\* only.
AccumulateOptions ==
    {o \in Options : (o.delay # Absent /\ o.size.max # Absent) => o = AllOptions}

\* The configurations run with the completion steps: no threshold, each
\* threshold alone, and count with delay.
Configurations ==
    {NoOptions} \cup
    {[count |-> c, delay |-> Absent, size |-> NoSize] : c \in {1, CountMax}} \cup
    {[count |-> Absent, delay |-> DelayMax, size |-> NoSize]} \cup
    {[count |-> Absent, delay |-> Absent, size |-> [max |-> SizeMax, strict |-> s]] :
        s \in BOOLEAN} \cup
    {[count |-> CountMax, delay |-> DelayMax, size |-> NoSize]}

----------------------------------------------------------------------------
(* The constructor's arguments *)

\* A JavaScript value, as far as the constructor looks at it: what kind of
\* value it is and, for a number or a boolean (0 or 1), which.
Value(kind, num) == [kind |-> kind, num |-> num]

UndefinedValue == Value("undefined", 0)
Function == Value("function", 0)
Number(n) == Value("number", n)
Boolean(b) == Value("boolean", IF b THEN 1 ELSE 0)

\* typeof x
typeof(x) == IF x.kind = "null" THEN "object" ELSE x.kind

\* The values tried for fn (as in the tests: a function, undefined, 1).
FnArgs == {Function, UndefinedValue, Number(1)}

\* The values tried for options.count and options.delay: undefined, null, a
\* number, or an object whose max is undefined, a string or a number.
Threshold(kind, max) == [kind |-> kind, max |-> max]

NoThreshold == Threshold("undefined", UndefinedValue)

ThresholdArgs(numbers) ==
    {Threshold(k, UndefinedValue) : k \in {"undefined", "null", "number"}} \cup
    {Threshold("object", max) :
        max \in {UndefinedValue, Value("string", 0)} \cup {Number(n) : n \in numbers}}

CountArgs == ThresholdArgs({0, 1, CountMax})

DelayArgs == ThresholdArgs({-1, 0, DelayMax})

\* The values tried for options.size.
SizeArg(kind, max, calc, strict) ==
    [kind |-> kind, max |-> max, calculate |-> calc, strict |-> strict]

NoSizeArg == SizeArg("undefined", UndefinedValue, UndefinedValue, UndefinedValue)

SizeArgs ==
    {SizeArg(k, UndefinedValue, UndefinedValue, UndefinedValue) :
        k \in {"undefined", "null", "number"}} \cup
    {SizeArg("object", max, calc, strict) :
        max \in {UndefinedValue, Value("string", 0), Number(0), Number(SizeMax)},
        calc \in {UndefinedValue, Function, Boolean(TRUE)},
        strict \in {UndefinedValue, Value("string", 0), Boolean(TRUE), Boolean(FALSE)}}

\* The values tried for options.
OptionsArg(kind, count, delay, size) ==
    [kind |-> kind, count |-> count, delay |-> delay, size |-> size]

OptionsArgs ==
    {OptionsArg(k, NoThreshold, NoThreshold, NoSizeArg) :
        k \in {"undefined", "null", "number"}} \cup
    {OptionsArg("object", count, delay, size) :
        count \in CountArgs, delay \in DelayArgs, size \in SizeArgs}

Arguments == [fn : FnArgs, options : OptionsArgs]

\* The arguments that validate to the thresholds o.
Given(o) ==
    [fn |-> Function,
     options |->
        OptionsArg("object",
            IF o.count = Absent THEN NoThreshold
            ELSE Threshold("object", Number(o.count)),
            IF o.delay = Absent THEN NoThreshold
            ELSE Threshold("object", Number(o.delay)),
            IF o.size.max = Absent THEN NoSizeArg
            ELSE SizeArg("object", Number(o.size.max), Function,
                         Boolean(o.size.strict)))]

NoFailure == "none"
NotConstructed == "not constructed"

Throw(message) == [error |-> message, validated |-> NoOptions]

\* (mutant) count.max = 0 accepted
countMaxInvalidLoose(max) == typeof(max) # "number" \/ max.num < 0

\* validateOptions, line 292
countMaxInvalid(max) == typeof(max) # "number" \/ max.num < 1

\* validateOptions, line 306
delayMaxInvalid(max) == typeof(max) # "number" \/ max.num < 0

\* validateOptions(options): the error thrown, or the validated copy
validateOptions(o) ==
    IF typeof(o) = "undefined" THEN [error |-> NoFailure, validated |-> NoOptions]
    ELSE IF typeof(o) # "object" \/ o.kind = "null"
    THEN Throw("options must be an object")
    ELSE IF typeof(o.count) # "undefined"
            /\ (typeof(o.count) # "object" \/ o.count.kind = "null")
    THEN Throw("count must be an object")
    ELSE IF typeof(o.count) # "undefined" /\ countMaxInvalid(o.count.max)
    THEN Throw("count.max must be a number greater than or equal to 1")
    ELSE IF typeof(o.delay) # "undefined"
            /\ (typeof(o.delay) # "object" \/ o.delay.kind = "null")
    THEN Throw("delay must be an object")
    ELSE IF typeof(o.delay) # "undefined" /\ delayMaxInvalid(o.delay.max)
    THEN Throw("delay.max must be a number greater than or equal to 0")
    ELSE IF typeof(o.size) # "undefined"
            /\ (typeof(o.size) # "object" \/ o.size.kind = "null")
    THEN Throw("size must be an object")
    ELSE IF typeof(o.size) # "undefined" /\ typeof(o.size.max) # "number"
    THEN Throw("size.max must be a number")
    ELSE IF typeof(o.size) # "undefined" /\ typeof(o.size.calculate) # "function"
    THEN Throw("if size.max is provided, size.calculate must also be provided")
    ELSE IF typeof(o.size) # "undefined" /\ typeof(o.size.strict) # "undefined"
            /\ typeof(o.size.strict) # "boolean"
    THEN Throw("size.strict must be a boolean")
    ELSE [error |-> NoFailure,
          validated |->
             [count |-> IF typeof(o.count) = "undefined" THEN Absent
                        ELSE o.count.max.num,
              delay |-> IF typeof(o.delay) = "undefined" THEN Absent
                        ELSE o.delay.max.num,
              size |-> IF typeof(o.size) = "undefined" THEN NoSize
                       ELSE [max |-> o.size.max.num,
                             strict |-> IF typeof(o.size.strict) = "undefined"
                                        THEN TRUE
                                        ELSE o.size.strict.num = 1]]]

\* new AccumulatingProcessor(fn, options), lines 126-132
construct(a) ==
    IF typeof(a.fn) # "function" THEN Throw("processing function must be provided")
    ELSE validateOptions(a.options)

----------------------------------------------------------------------------

HasCount == options.count # Absent
HasDelay == options.delay # Absent
HasSize  == options.size.max # Absent

\* Items are numbers and size.calculate is (n) => n, as in the tests.  When
\* no size threshold is configured calculate is never called and one item
\* value stands for all.
Items == IF HasSize THEN -1 .. (SizeMax + 1) ELSE {1}

\* The items run with the completion steps.
FewItems == IF HasSize THEN {-1, 1, SizeMax + 1} ELSE {1}

calculate(item) == item

NoItem == -2         \* no item

NoOutcome == [kind |-> "pending", value |-> Undefined, results |-> <<>>]

\* The per-item results tried: the value "v1", the Error "E1", and "raise",
\* a cell whose lookup throws "XE".  Each array tried starts at another
\* cell, so that every cell occurs at every index.
CellOrder == <<"v1", "E1", "raise">>

Rotation(k) ==
    [i \in 1 .. MaxResults |-> CellOrder[((k + i - 2) % Len(CellOrder)) + 1]]

\* What a processing function returns: nothing, null, or an array of per-item
\* results (shorter than a batch of more than MaxResults items).
Void == [kind |-> "fulfil", value |-> Undefined, results |-> <<>>]

Returns ==
    {Void, [kind |-> "fulfil", value |-> Null, results |-> <<>>]} \cup
    {[kind |-> "fulfil", value |-> "array", results |-> Rotation(k)] :
        k \in 1 .. Len(CellOrder)}

\* The ways the promise of #fn(items) settles: the function throws or rejects,
\* or it returns (or fulfils with) its value.
Outcomes ==
    {[kind |-> "reject", value |-> e, results |-> <<>>] : e \in DispatchErrors} \cup {fn}

----------------------------------------------------------------------------
(* The processor's state as one record, for the synchronous code paths *)

State == [current |-> current, batches |-> batches, all |-> all, calls |-> calls]

\* batch.entries.map((entry) => entry.item)
ItemsOf(entries) == [i \in 1 .. Len(entries) |-> entries[i].item]

\* history: which submissions (1st, 2nd, ...) the entries are
IdsOf(entries) == [i \in 1 .. Len(entries) |-> entries[i].id]

\* entry.resolve(v) / entry.reject(v): a promise settles once
settle(entry, how, v) ==
    IF entry.state = "pending"
    THEN [entry EXCEPT !.state = how, !.value = v, !.settles = @ + 1]
    ELSE [entry EXCEPT !.settles = @ + 1]

\* (mutant) an index beyond the end of the results fails
lookupBeyondFails(results, index) ==
    IF index > Len(results) THEN "XE"
    ELSE IF results[index] = "raise" THEN "XE"
    ELSE results[index]

\* (mutant) a failing lookup yields undefined
lookupSwallows(results, index) ==
    IF index > Len(results) THEN Undefined
    ELSE IF results[index] = "raise" THEN Undefined
    ELSE results[index]

\* results[index], lines 236-240: a failing lookup yields the error thrown
lookup(results, index) ==
    IF index > Len(results) THEN Undefined
    ELSE IF results[index] = "raise" THEN "XE"
    ELSE results[index]

\* (mutant) every entry is given the first result
mapResultFirst(outcome, entry, index) ==
    LET indexable == outcome.value \notin {Undefined, Null}
        result == IF indexable THEN lookup(outcome.results, 1) ELSE Undefined
    IN IF IsError(result) THEN settle(entry, "rejected", result)
       ELSE settle(entry, "resolved", result)

\* (mutant) an entry is resolved and, for an Error, rejected as well
mapResultTwice(outcome, entry, index) ==
    LET indexable == outcome.value \notin {Undefined, Null}
        result == IF indexable THEN lookup(outcome.results, index) ELSE Undefined
    IN IF IsError(result)
       THEN settle(settle(entry, "resolved", result), "rejected", result)
       ELSE settle(entry, "resolved", result)

\* the then callback, lines 228-247
mapResult(outcome, entry, index) ==
    LET indexable == outcome.value \notin {Undefined, Null}
        result == IF indexable THEN lookup(outcome.results, index) ELSE Undefined
    IN IF IsError(result) THEN settle(entry, "rejected", result)
       ELSE settle(entry, "resolved", result)

\* (mutant) only the first entry is rejected
failEntryFirst(outcome, entry, index) ==
    IF index = 1 THEN settle(entry, "rejected", outcome.value) ELSE entry

\* the catch callback, lines 248-252
failEntry(outcome, entry, index) == settle(entry, "rejected", outcome.value)

\* process(), lines 212-215: entry.resolve and entry.reject are assigned
\* when process() returns the item's promise (until then they are undefined,
\* lines 192-193); `accepted` grows as process() returns.
installed(entry) == entry.id <= Len(accepted)

\* The TypeError of calling entry.resolve or entry.reject while undefined.
NotAFunction == [kind |-> "reject", value |-> "TE", results |-> <<>>]

\* The reactions of lines 228-254 run in one go on entries of which some may
\* have no handles yet: forEach stops at the first such entry with a
\* TypeError, which the catch callback receives when the then callback
\* threw; the finally callback calls batch.resolve().
runReactions(batch, outcome) ==
    LET entries == batch.entries
        reached(i) == \A j \in 1 .. i : installed(entries[j])
        threw == \E j \in 1 .. Len(entries) : ~installed(entries[j])
        first(i) ==
            IF ~reached(i) THEN entries[i]
            ELSE IF outcome.kind = "reject" THEN failEntry(outcome, entries[i], i)
            ELSE mapResult(outcome, entries[i], i)
        second(i) ==
            IF outcome.kind # "reject" /\ threw /\ reached(i)
            THEN failEntry(NotAFunction, first(i), i)
            ELSE first(i)
    IN [batch EXCEPT !.outcome = outcome,
                     !.stage = "resolved",
                     !.entries = [i \in 1 .. Len(entries) |-> second(i)]]

\* (mutant) #fn that hands on what fn returned, here a thenable that calls
\* its reactions as soon as they are attached
wrapperPassesOn == "inline"

\* #fn, line 131: an async function returns a native promise, whose
\* reactions are jobs run after the call that attached them has returned
wrapper == "job"

\* release(), lines 228-254: the reactions are attached to the promise of
\* #fn(items)
attach(st, b) ==
    IF wrapper = "job" THEN st
    ELSE [st EXCEPT !.batches[b] = runReactions(@, fn)]

\* clearTimeout(batch.timeout)
clearTimeout(batch) == [batch EXCEPT !.timer = "idle"]

\* (mutant) release() that leaves #current set
releaseKeepsCurrent(st, by) ==
    LET b == st.current IN
    IF b = None THEN st
    ELSE [st EXCEPT
            !.batches[b] = [clearTimeout(@) EXCEPT !.stage = "inflight"],
            !.calls = Append(@, [batch |-> b,
                                 items |-> ItemsOf(st.batches[b].entries),
                                 ids |-> IdsOf(st.batches[b].entries),
                                 by |-> by])]

\* (mutant) release() that invokes fn with no items when nothing accumulates
releaseEmpty(st, by) ==
    LET b == st.current IN
    IF b = None
    THEN [st EXCEPT
            !.calls = Append(@, [batch |-> None, items |-> <<>>, ids |-> <<>>,
                                 by |-> by])]
    ELSE [st EXCEPT
            !.current = None,
            !.batches[b] = [clearTimeout(@) EXCEPT !.stage = "inflight"],
            !.calls = Append(@, [batch |-> b,
                                 items |-> ItemsOf(st.batches[b].entries),
                                 ids |-> IdsOf(st.batches[b].entries),
                                 by |-> by])]

\* release(): detach #current, clear its timer, invoke fn with its items.
\* `by` records what called release().
release(st, by) ==
    LET b == st.current IN
    IF b = None THEN st
    ELSE attach([st EXCEPT
            !.current = None,
            !.batches[b] = [clearTimeout(@) EXCEPT !.stage = "inflight"],
            !.calls = Append(@, [batch |-> b,
                                 items |-> ItemsOf(st.batches[b].entries),
                                 ids |-> IdsOf(st.batches[b].entries),
                                 by |-> by])], b)

\* process(), lines 165-188: create the next batch when none accumulates.
open(st) ==
    IF st.current # None THEN st
    ELSE LET id == Len(st.batches) + 1
             next == [entries |-> <<>>,
                      size |-> 0,
                      stage |-> "open",
                      timer |-> IF HasDelay THEN "armed" ELSE "idle",
                      deadline |-> IF HasDelay THEN now + options.delay ELSE Absent,
                      outcome |-> NoOutcome]
         IN [st EXCEPT !.current = id,
                       !.batches = Append(@, next),
                       !.all = @ \cup {id}]

\* (mutant) push that restarts the delay timer
pushRearms(st, item, size) ==
    LET entry == [id |-> Len(accepted) + 1,
                  item |-> item,
                  state |-> "pending",
                  value |-> Undefined,
                  settles |-> 0]
    IN [st EXCEPT !.batches[st.current].entries = Append(@, entry),
                  !.batches[st.current].size = @ + size,
                  !.batches[st.current].deadline =
                      IF HasDelay THEN now + options.delay ELSE @]

\* (mutant) push that puts the entry in front
pushFront(st, item, size) ==
    LET entry == [id |-> Len(accepted) + 1,
                  item |-> item,
                  state |-> "pending",
                  value |-> Undefined,
                  settles |-> 0]
    IN [st EXCEPT !.batches[st.current].entries = <<entry>> \o @,
                  !.batches[st.current].size = @ + size]

\* (mutant) push that leaves the batch's size as it was
pushUnsized(st, item, size) ==
    LET entry == [id |-> Len(accepted) + 1,
                  item |-> item,
                  state |-> "pending",
                  value |-> Undefined,
                  settles |-> 0]
    IN [st EXCEPT !.batches[st.current].entries = Append(@, entry)]

\* process(), lines 190-197: push the entry, add its size.
push(st, item, size) ==
    LET entry == [id |-> Len(accepted) + 1,
                  item |-> item,
                  state |-> "pending",
                  value |-> Undefined,
                  settles |-> 0]
    IN [st EXCEPT !.batches[st.current].entries = Append(@, entry),
                  !.batches[st.current].size = @ + size]

\* process(), lines 148-152: the item's size, 0 without a size threshold.
sizeOf(item) == IF HasSize THEN calculate(item) ELSE 0

\* (mutant) the strict check with the flag inverted
tooLargeInverted(size) == HasSize /\ size > options.size.max /\ ~options.size.strict

\* process(), line 154: the strict check.
tooLarge(size) == HasSize /\ size > options.size.max /\ options.size.strict

\* (mutant) the pre-append check compared with >= instead of >
overflowsInclusive(st, size) ==
    HasSize /\ st.current # None
            /\ st.batches[st.current].size + size >= options.size.max

\* (mutant) no release before the push
overflowsNever(st, size) == FALSE

\* process(), line 160: the item would push the batch over the limit.
overflows(st, size) ==
    HasSize /\ st.current # None
            /\ st.batches[st.current].size + size > options.size.max

\* (mutant) count threshold compared with < instead of <=
countReachedLate(st) ==
    HasCount /\ options.count < Len(st.batches[st.current].entries)

\* (mutant) a batch is released as soon as it holds an item
countReachedAlways(st) == TRUE

\* process(), lines 199-208: the thresholds checked after the push.
countReached(st) ==
    HasCount /\ options.count <= Len(st.batches[st.current].entries)

\* (mutant) the size threshold compared without testing that it is configured
sizeReachedUnguarded(st) ==
    options.size.max <= st.batches[st.current].size

sizeReached(st) ==
    HasSize /\ options.size.max <= st.batches[st.current].size

\* (mutant) process(item) that creates the batch before the pre-append check
enqueueOpensFirst(st, item) ==
    LET size == sizeOf(item)
        s1 == open(st)
        s2 == IF overflows(s1, size) THEN open(release(s1, "overflow")) ELSE s1
        s3 == push(s2, item, size)
    IN IF countReached(s3) THEN release(s3, "count")
       ELSE IF sizeReached(s3) THEN release(s3, "size")
       ELSE s3

\* process(item) for an item that passes the strict check.
enqueue(st, item) ==
    LET size == sizeOf(item)
        s1 == IF overflows(st, size) THEN release(st, "overflow") ELSE st
        s2 == open(s1)
        s3 == push(s2, item, size)
    IN IF countReached(s3) THEN release(s3, "count")
       ELSE IF sizeReached(s3) THEN release(s3, "size")
       ELSE s3

Install(st) ==
    /\ current' = st.current
    /\ batches' = st.batches
    /\ all' = st.all
    /\ calls' = st.calls

----------------------------------------------------------------------------
(* Actions *)

InitWith(configurations, functions) ==
    /\ options \in configurations
    /\ args = Given(options)
    /\ failure = NoFailure
    /\ fn \in functions
    /\ current = None
    /\ batches = <<>>
    /\ all = {}
    /\ calls = <<>>
    /\ accepted = <<>>
    /\ flushes = <<>>
    /\ now = 0
    /\ thrown = NoItem

Init == InitWith(Configurations, Returns)

\* Before new AccumulatingProcessor(args.fn, args.options) has run.
InitConstruct ==
    /\ args \in Arguments
    /\ failure = NotConstructed
    /\ options = NoOptions
    /\ fn = Void
    /\ current = None
    /\ batches = <<>>
    /\ all = {}
    /\ calls = <<>>
    /\ accepted = <<>>
    /\ flushes = <<>>
    /\ now = 0
    /\ thrown = NoItem

\* new AccumulatingProcessor(args.fn, args.options)
Construct ==
    /\ failure = NotConstructed
    /\ failure' = construct(args).error
    /\ options' = construct(args).validated
    /\ UNCHANGED <<args, fn, current, batches, all, calls, accepted, flushes, now,
                   thrown>>

\* process(item)
Process(item) ==
    /\ Len(accepted) < MaxItems
    /\ IF tooLarge(sizeOf(item))
       THEN /\ thrown' = item
            /\ UNCHANGED <<current, batches, all, calls, accepted>>
       ELSE /\ Install(enqueue(State, item))
            /\ accepted' = Append(accepted, item)
            /\ thrown' = NoItem
    /\ UNCHANGED <<args, failure, options, fn, flushes, now>>

\* release() called by the user
Release ==
    /\ Install(release(State, "release"))
    /\ thrown' = NoItem
    /\ UNCHANGED <<args, failure, options, fn, accepted, flushes, now>>

\* (mutant) flush() that awaits the open batch only
FlushOpenOnly ==
    /\ Len(flushes) < MaxFlush
    /\ flushes' = Append(flushes, [waits |-> {current} \ {None},
                                   before |-> Len(accepted),
                                   done |-> FALSE,
                                   rejected |-> FALSE])
    /\ Install(release(State, "flush"))
    /\ thrown' = NoItem
    /\ UNCHANGED <<args, failure, options, fn, accepted, now>>

\* flush(), up to its await
Flush ==
    /\ Len(flushes) < MaxFlush
    /\ flushes' = Append(flushes, [waits |-> all,
                                   before |-> Len(accepted),
                                   done |-> FALSE,
                                   rejected |-> FALSE])
    /\ Install(release(State, "flush"))
    /\ thrown' = NoItem
    /\ UNCHANGED <<args, failure, options, fn, accepted, now>>

\* the callback of the timer armed for batch b
timerCallback(st, b) ==
    LET s1 == [st EXCEPT !.batches[b].timer = "idle"] IN
    IF s1.current = b THEN release(s1, "timer") ELSE s1

TimerFire(b) ==
    /\ batches[b].timer = "armed"
    /\ batches[b].deadline <= now
    /\ Install(timerCallback(State, b))
    /\ thrown' = NoItem
    /\ UNCHANGED <<args, failure, options, fn, accepted, flushes, now>>

\* Time passes; a timer that is due fires before the clock moves on.  The
\* clock is read only by setTimeout, so it stands still without a delay.
Tick ==
    /\ HasDelay
    /\ now < MaxTime
    /\ \A b \in 1 .. Len(batches) :
          batches[b].timer = "armed" => batches[b].deadline > now
    /\ now' = now + 1
    /\ thrown' = NoItem
    /\ UNCHANGED <<args, failure, options, fn, current, batches, all, calls, accepted, flushes>>

\* The promise of #fn(items) settles and its then or catch reaction runs.
Settle(b, outcome) ==
    /\ batches[b].stage = "inflight"
    /\ batches' = [batches EXCEPT
          ![b].outcome = outcome,
          ![b].stage = "settled",
          ![b].entries = [i \in 1 .. Len(@) |->
                IF outcome.kind = "reject" THEN failEntry(outcome, @[i], i)
                ELSE mapResult(outcome, @[i], i)]]
    /\ thrown' = NoItem
    /\ UNCHANGED <<args, failure, options, fn, current, all, calls, accepted, flushes, now>>

\* (mutant) batch.resolve() called at the end of the then callback only
FinallyOnSuccess(b) ==
    /\ batches[b].stage = "settled"
    /\ batches[b].outcome.kind # "reject"
    /\ batches' = [batches EXCEPT ![b].stage = "resolved"]
    /\ thrown' = NoItem
    /\ UNCHANGED <<args, failure, options, fn, current, all, calls, accepted, flushes, now>>

\* the finally callback, lines 252-254: batch.resolve()
Finally(b) ==
    /\ batches[b].stage = "settled"
    /\ batches' = [batches EXCEPT ![b].stage = "resolved"]
    /\ thrown' = NoItem
    /\ UNCHANGED <<args, failure, options, fn, current, all, calls, accepted, flushes, now>>

\* (mutant) the reaction chained on the batch's promise deletes nothing
DeleteNothing(b) ==
    /\ batches[b].stage = "resolved"
    /\ batches' = [batches EXCEPT ![b].stage = "deleted"]
    /\ thrown' = NoItem
    /\ UNCHANGED <<args, failure, options, fn, current, all, calls, accepted, flushes, now>>

\* the reaction chained on the batch's promise, lines 175-177; batch.promise
\* is fulfilled once it has run
Delete(b) ==
    /\ batches[b].stage = "resolved"
    /\ batches' = [batches EXCEPT ![b].stage = "deleted"]
    /\ all' = all \ {b}
    /\ thrown' = NoItem
    /\ UNCHANGED <<args, failure, options, fn, current, calls, accepted, flushes, now>>

\* (mutant) a batch promise that is rejected when the invocation failed
promiseOfFailing(b) ==
    IF batches[b].stage # "deleted" THEN "pending"
    ELSE IF batches[b].outcome.kind = "reject" THEN "rejected"
    ELSE "fulfilled"

\* batch.promise, lines 173-177: fulfilled once the reaction that deletes the
\* batch has run; batch.resolve() is all that settles it
promiseOf(b) ==
    IF batches[b].stage = "deleted" THEN "fulfilled" ELSE "pending"

\* Promise.all(promises): rejected once one of them is, fulfilled once all are
promiseAll(waits) ==
    IF \E b \in waits : promiseOf(b) = "rejected" THEN "rejected"
    ELSE IF \A b \in waits : promiseOf(b) = "fulfilled" THEN "fulfilled"
    ELSE "pending"

\* (mutant) flush() that waits until the registry has drained
FlushResolveDrain(f) ==
    /\ ~flushes[f].done
    /\ all = {}
    /\ flushes' = [flushes EXCEPT ![f].done = TRUE]
    /\ thrown' = NoItem
    /\ UNCHANGED <<args, failure, options, fn, current, batches, all, calls, accepted, now>>

\* flush() after its await: the promise of the async function settles as
\* Promise.all over the snapshot did
FlushResolve(f) ==
    /\ ~flushes[f].done
    /\ promiseAll(flushes[f].waits) # "pending"
    /\ flushes' = [flushes EXCEPT
          ![f].done = TRUE,
          ![f].rejected = (promiseAll(flushes[f].waits) = "rejected")]
    /\ thrown' = NoItem
    /\ UNCHANGED <<args, failure, options, fn, current, batches, all, calls, accepted, now>>

Next ==
    \/ \E item \in FewItems : Process(item)
    \/ Release
    \/ Flush
    \/ \E b \in 1 .. Len(batches) : TimerFire(b)
    \/ Tick
    \/ \E b \in 1 .. Len(batches) : \E o \in Outcomes : Settle(b, o)
    \/ \E b \in 1 .. Len(batches) : Finally(b)
    \/ \E b \in 1 .. Len(batches) : Delete(b)
    \/ \E f \in 1 .. Len(flushes) : FlushResolve(f)

Spec == Init /\ [][Next]_vars

\* Accumulation alone: every item size, while no invocation of the
\* processing function completes.
InitAccumulate == InitWith(AccumulateOptions, {Void})

NextAccumulate ==
    \/ \E item \in Items : Process(item)
    \/ Release
    \/ Flush
    \/ \E b \in 1 .. Len(batches) : TimerFire(b)
    \/ Tick

SpecAccumulate == InitAccumulate /\ [][NextAccumulate]_vars

\* Accumulation under a size threshold: size.max at its largest, as a hard
\* limit alone and with the delay timer, and as a soft limit alone.
SizeOptions ==
    {[count |-> Absent, delay |-> d, size |-> [max |-> SizeMax, strict |-> TRUE]] :
        d \in {Absent, DelayMax}} \cup
    {[count |-> Absent, delay |-> Absent, size |-> [max |-> SizeMax, strict |-> FALSE]]}

InitSize == InitWith(SizeOptions, {Void})

SpecSize == InitSize /\ [][NextAccumulate]_vars

\* Construction alone: every combination of the argument values tried.
NextConstruct == Construct

SpecConstruct == InitConstruct /\ [][NextConstruct]_vars

\* Completion alone: batches are formed by release() and flush() only (any
\* split of the items into batches can be formed that way), every
\* processing function.
InitComplete == InitWith({NoOptions}, Returns)

NextComplete ==
    \/ \E item \in Items : Process(item)
    \/ Release
    \/ Flush
    \/ \E b \in 1 .. Len(batches) : \E o \in Outcomes : Settle(b, o)
    \/ \E b \in 1 .. Len(batches) : Finally(b)
    \/ \E b \in 1 .. Len(batches) : Delete(b)
    \/ \E f \in 1 .. Len(flushes) : FlushResolve(f)

SpecComplete == InitComplete /\ [][NextComplete]_vars

\* Completion with the reactions of settled promises run: the finally
\* reaction of a settled invocation and the reaction on a resolved batch
\* promise are jobs in the microtask queue, which the event loop empties.
\* Nothing makes a processing function settle.
InitReact == InitWith({NoOptions}, {Void})

Reactions ==
    /\ WF_vars(\E b \in 1 .. Len(batches) : Finally(b))
    /\ WF_vars(\E b \in 1 .. Len(batches) : Delete(b))

NextReact ==
    \/ \E item \in Items : Process(item)
    \/ Release
    \/ \E b \in 1 .. Len(batches) : \E o \in Outcomes : Settle(b, o)
    \/ \E b \in 1 .. Len(batches) : Finally(b)
    \/ \E b \in 1 .. Len(batches) : Delete(b)

SpecReact == InitReact /\ [][NextReact]_vars /\ Reactions

\* Completion when every invocation of the processing function completes:
\* while the promise of some #fn(items) is pending or a reaction is due (of
\* an invocation, of a batch promise, or the continuation of flush() after
\* its await), one of them takes place.
Completion ==
    WF_vars(\/ \E b \in 1 .. Len(batches) : \E o \in Outcomes : Settle(b, o)
            \/ \E b \in 1 .. Len(batches) : Finally(b)
            \/ \E b \in 1 .. Len(batches) : Delete(b)
            \/ \E f \in 1 .. Len(flushes) : FlushResolve(f))

\* The batches flush() waits for are handed over by a count threshold or
\* by flush() itself.
FlushOptions ==
    {NoOptions} \cup
    {[count |-> c, delay |-> Absent, size |-> NoSize] : c \in {1, CountMax}}

InitFlush == InitWith(FlushOptions, {Void})

NextFlush ==
    \/ \E item \in Items : Process(item)
    \/ Flush
    \/ \E b \in 1 .. Len(batches) : \E o \in Outcomes : Settle(b, o)
    \/ \E b \in 1 .. Len(batches) : Finally(b)
    \/ \E b \in 1 .. Len(batches) : Delete(b)
    \/ \E f \in 1 .. Len(flushes) : FlushResolve(f)

SpecFlush == InitFlush /\ [][NextFlush]_vars /\ Completion

\* Settlement on its own: process() and release() dispatch batches and
\* every kind of processing function settles them, with no flush() waiting
\* on the batch promises (flush reads #all and calls release(); it never
\* touches an entry or a batch's resolve).
SpecSettle == InitComplete /\ [][NextReact]_vars

\* Submission up to completion: a count or a size threshold alone, so that
\* process() itself hands the batches over; every processing function.
SubmitOptions ==
    {[count |-> c, delay |-> Absent, size |-> NoSize] : c \in {1, CountMax}} \cup
    {[count |-> Absent, delay |-> Absent, size |-> [max |-> SizeMax, strict |-> FALSE]]}

InitSubmit == InitWith(SubmitOptions, Returns)

NextSubmit ==
    \/ \E item \in FewItems : Process(item)
    \/ Release
    \/ \E b \in 1 .. Len(batches) : \E o \in Outcomes : Settle(b, o)
    \/ \E b \in 1 .. Len(batches) : Finally(b)
    \/ \E b \in 1 .. Len(batches) : Delete(b)

SpecSubmit == InitSubmit /\ [][NextSubmit]_vars

----------------------------------------------------------------------------
(* Helpers for the properties *)

Last(seq) == seq[Len(seq)]

Batches == 1 .. Len(batches)

NoThresholds == ~HasCount /\ ~HasDelay /\ ~HasSize

\* the call release() makes for the open batch
CallFor(b, by) ==
    [batch |-> b,
     items |-> ItemsOf(batches[b].entries),
     ids |-> IdsOf(batches[b].entries),
     by |-> by]

\* the entry process(item) creates
EntryFor(item) ==
    [id |-> Len(accepted) + 1, item |-> item, state |-> "pending",
     value |-> Undefined, settles |-> 0]

----------------------------------------------------------------------------
(* C1: with no thresholds, release() on an open batch invokes the          *)
(* processing function exactly once, within the release step, with all the *)
(* batch's items in submission order, and closes the batch; process()      *)
(* dispatches nothing, and the first item after a release opens a new      *)
(* batch holding only that item.                                           *)

C1_ReleaseStep ==
    (Release /\ current # None) =>
        /\ calls' = Append(calls, CallFor(current, "release"))
        /\ CallFor(current, "release").ids =
              [i \in 1 .. Len(batches[current].entries) |->
                  Len(accepted) - Len(batches[current].entries) + i]
        /\ current' = None

C1_ProcessStep ==
    \A item \in Items : Process(item) =>
        /\ calls' = calls
        /\ current' # None
        /\ current = None =>
              /\ current' = Len(batches) + 1
              /\ batches'[current'].entries = <<EntryFor(item)>>
              /\ batches'[current'].stage = "open"
        /\ current # None =>
              /\ current' = current
              /\ batches'[current].entries =
                    Append(batches[current].entries, EntryFor(item))

C1_ManualRelease ==
    [][NoThresholds => (C1_ReleaseStep /\ C1_ProcessStep)]_vars

C1_Witness ==
    /\ NoThresholds
    /\ \E c \in 1 .. Len(calls) :
          /\ calls[c].by = "release"
          /\ Len(calls[c].items) >= 2
          /\ current # None
          /\ current > calls[c].batch
          /\ batches[current].stage = "open"

----------------------------------------------------------------------------
(* C2: with only count.max = k and no release()/flush() that dispatched,   *)
(* after n submissions fn has been invoked n div k times, the j-th         *)
(* invocation got submissions (j-1)k+1 .. jk, and the other n mod k items  *)
(* are in the open batch.                                                  *)

CountOnly == HasCount /\ ~HasDelay /\ ~HasSize

OnlyCountReleases ==
    /\ flushes = <<>>
    /\ \A c \in 1 .. Len(calls) : calls[c].by = "count"

C2_CountThreshold ==
    (CountOnly /\ OnlyCountReleases) =>
        LET k == options.count
            n == Len(accepted)
            rest == n % k
        IN /\ Len(calls) = n \div k
           /\ \A j \in 1 .. Len(calls) :
                 /\ calls[j].ids = [i \in 1 .. k |-> (j - 1) * k + i]
                 /\ calls[j].items = [i \in 1 .. k |-> accepted[(j - 1) * k + i]]
           /\ (rest = 0) <=> (current = None)
           /\ rest > 0 =>
                 /\ batches[current].stage = "open"
                 /\ IdsOf(batches[current].entries) =
                       [i \in 1 .. rest |-> n - rest + i]

C2_Witness ==
    /\ CountOnly /\ OnlyCountReleases
    /\ options.count = CountMax
    /\ Len(calls) >= 1
    /\ current # None

----------------------------------------------------------------------------
(* C3: with delay.max = d the timer of a batch is set, when the batch is   *)
(* created, to d after that moment and is not moved by later items; the    *)
(* open batch never outlives that moment; and when the timer fires, at     *)
(* that moment, the batch is dispatched with every item it then holds.     *)

C3_Armed ==
    \A item \in Items : Process(item) =>
        /\ (current = None /\ Len(batches') > Len(batches)) =>
              batches'[Len(batches')].deadline = now + options.delay
        /\ \A b \in Batches : batches'[b].deadline = batches[b].deadline

C3_Fires ==
    \A b \in Batches : TimerFire(b) =>
        /\ now = batches[b].deadline
        /\ current = b
        /\ calls' = Append(calls, CallFor(b, "timer"))
        /\ current' = None

C3_NotLate ==
    current # None =>
        /\ batches[current].timer = "armed"
        /\ now <= batches[current].deadline

C3_DelayThreshold ==
    [](HasDelay => C3_NotLate) /\ [][HasDelay => (C3_Armed /\ C3_Fires)]_vars

C3_Witness ==
    /\ HasDelay
    /\ \E c \in 1 .. Len(calls) :
          /\ calls[c].by = "timer"
          /\ Len(calls[c].items) >= 2
          /\ now = batches[calls[c].batch].deadline
          /\ now > 0

----------------------------------------------------------------------------
(* C4: no batch is passed to the processing function twice, and the timer  *)
(* armed for a batch releases that batch or nothing.                       *)

C4_AtMostOnce ==
    \A c1, c2 \in 1 .. Len(calls) : calls[c1].batch = calls[c2].batch => c1 = c2

C4_OwnTimer ==
    \A b \in Batches : TimerFire(b) =>
        \/ calls' = calls
        \/ /\ Len(calls') = Len(calls) + 1
           /\ Last(calls').batch = b
           /\ \A c \in 1 .. Len(calls) : calls'[c] = calls[c]

C4_NoDoubleRelease == []C4_AtMostOnce /\ [][C4_OwnTimer]_vars

\* a batch with a timer was closed by another trigger and a newer batch,
\* with its own timer pending, is open
C4_Witness ==
    /\ HasDelay
    /\ current # None
    /\ batches[current].timer = "armed"
    /\ \E c \in 1 .. Len(calls) :
          /\ calls[c].by # "timer"
          /\ calls[c].batch < current
          /\ batches[calls[c].batch].deadline >= now

----------------------------------------------------------------------------
(* C5 (as stated): with a size threshold, process(item) on an open batch   *)
(* whose size plus the item's size exceeds size.max releases that batch    *)
(* without the item and makes the item the first entry of a new batch;     *)
(* otherwise the item is appended to the open batch.                       *)
(* C5_Original states this for runs without negative sizes, where it      *)
(* already fails.                                                          *)
(* C5 (amended): the same for an item that passes the strict check.        *)

NonNegative == \A i \in 1 .. Len(accepted) : calculate(accepted[i]) >= 0

Exceeds(item) == batches[current].size + calculate(item) > options.size.max

C5_Released(item) ==
    /\ Len(calls') > Len(calls)
    /\ calls'[Len(calls) + 1] = CallFor(current, "overflow")
    /\ batches'[current].entries = batches[current].entries
    /\ batches'[current].stage = "inflight"
    /\ Len(batches') = Len(batches) + 1
    /\ batches'[Len(batches')].entries = <<EntryFor(item)>>
    /\ accepted' = Append(accepted, item)

C5_Appended(item) ==
    /\ Len(batches') = Len(batches)
    /\ batches'[current].entries = Append(batches[current].entries, EntryFor(item))
    /\ \A c \in 1 .. Len(calls') : c > Len(calls) => calls'[c].by # "overflow"
    /\ accepted' = Append(accepted, item)

C5_Step(item) == IF Exceeds(item) THEN C5_Released(item) ELSE C5_Appended(item)

C5_Original ==
    [][\A item \in Items :
          (Process(item) /\ HasSize /\ current # None
             /\ NonNegative /\ calculate(item) >= 0)
          => C5_Step(item)]_vars

C5_PreAppendRelease ==
    [][\A item \in Items :
          (Process(item) /\ HasSize /\ current # None
             /\ ~(options.size.strict /\ calculate(item) > options.size.max))
          => C5_Step(item)]_vars

C5_Witness ==
    /\ HasSize
    /\ \E c \in 1 .. Len(calls) :
          /\ calls[c].by = "overflow"
          /\ Len(calls[c].items) >= 2
          /\ Len(batches) > calls[c].batch
          /\ Len(batches[calls[c].batch + 1].entries) >= 1

----------------------------------------------------------------------------
(* C6: with strict = true, process(item) for an item larger than size.max  *)
(* throws and changes nothing: open batch, registry, calls, accepted items *)
(* and flushes stay as they were; no entry and no call ever holds such an  *)
(* item.                                                                   *)

Strict == HasSize /\ options.size.strict

C6_RejectStep ==
    \A item \in Items :
        (Process(item) /\ Strict /\ calculate(item) > options.size.max) =>
            /\ thrown' = item
            /\ UNCHANGED <<current, batches, all, calls, accepted, flushes, now>>

C6_NeverEnqueued ==
    Strict =>
        /\ \A b \in Batches : \A i \in 1 .. Len(batches[b].entries) :
              calculate(batches[b].entries[i].item) <= options.size.max
        /\ \A c \in 1 .. Len(calls) : \A i \in 1 .. Len(calls[c].items) :
              calculate(calls[c].items[i]) <= options.size.max

C6_StrictRejection == []C6_NeverEnqueued /\ [][C6_RejectStep]_vars

C6_Witness ==
    /\ Strict
    /\ thrown # NoItem
    /\ current # None
    /\ Len(batches[current].entries) >= 1
    /\ Len(calls) >= 1

----------------------------------------------------------------------------
(* C7: with strict = false and no negative item size so far,               *)
(* process(item) for an item larger than size.max is accepted; the open    *)
(* batch, if any, is dispatched first, then a new batch holding only the   *)
(* item is dispatched, all within the process step.                        *)

C7_Step(item) ==
    LET new == Len(batches) + 1
        \* a count threshold the new batch also reaches is checked first
        own == [batch |-> new, items |-> <<item>>,
                ids |-> <<Len(accepted) + 1>>,
                by |-> IF HasCount /\ options.count <= 1 THEN "count" ELSE "size"]
    IN /\ thrown' = NoItem
       /\ accepted' = Append(accepted, item)
       /\ current' = None
       /\ Len(batches') = new
       /\ batches'[new].entries = <<EntryFor(item)>>
       /\ batches'[new].stage = "inflight"
       /\ calls' = IF current # None
                   THEN Append(Append(calls, CallFor(current, "overflow")), own)
                   ELSE Append(calls, own)

C7_NonStrictOversize ==
    [][\A item \in Items :
          (Process(item) /\ HasSize /\ ~options.size.strict /\ NonNegative
             /\ calculate(item) > options.size.max)
          => C7_Step(item)]_vars

C7_Witness ==
    /\ HasSize /\ ~options.size.strict /\ NonNegative
    /\ \E c \in 2 .. Len(calls) :
          /\ calls[c].items = <<SizeMax + 1>>
          /\ calls[c - 1].by = "overflow"
          /\ calls[c - 1].batch = calls[c].batch - 1

----------------------------------------------------------------------------
(* C8: when the invocation for a batch fails with e, every entry of that   *)
(* batch is rejected with e and none is resolved; the step touches no      *)
(* other batch, nor the open-batch slot, the registry, the calls or the    *)
(* flushes.                                                                *)

C8_Failed ==
    \A b \in Batches :
        batches[b].outcome.kind = "reject" =>
            \A i \in 1 .. Len(batches[b].entries) :
                /\ batches[b].entries[i].state = "rejected"
                /\ batches[b].entries[i].value = batches[b].outcome.value

C8_FailStep ==
    \A b \in Batches : \A o \in Outcomes :
        (Settle(b, o) /\ o.kind = "reject") =>
            /\ \A i \in 1 .. Len(batches[b].entries) :
                  /\ batches'[b].entries[i].state = "rejected"
                  /\ batches'[b].entries[i].value = o.value
                  /\ batches'[b].entries[i].settles = 1
            /\ \A other \in Batches \ {b} : batches'[other] = batches[other]
            /\ UNCHANGED <<current, all, calls, accepted, flushes>>

C8_TotalFailure == []C8_Failed /\ [][C8_FailStep]_vars

\* a failed batch of two, beside a batch in flight or open with its entry
\* pending
C8_Witness ==
    \E b \in Batches :
        /\ batches[b].outcome.kind = "reject"
        /\ Len(batches[b].entries) >= 2
        /\ batches[b].entries[2].state = "rejected"
        /\ \E other \in Batches \ {b} :
              batches[other].entries[1].state = "pending"

----------------------------------------------------------------------------
(* C9: when the invocation for a batch returns an array r, the entry at    *)
(* index i whose lookup r[i] succeeds is rejected with r[i] if r[i] is an  *)
(* Error and resolved with r[i] otherwise, whatever the other indices      *)
(* hold.                                                                   *)

At(r, i) == IF i <= Len(r) THEN r[i] ELSE Undefined

C9_ResultMapping ==
    \A b \in Batches :
        (batches[b].outcome.kind = "fulfil" /\ batches[b].outcome.value = "array") =>
            \A i \in 1 .. Len(batches[b].entries) :
                LET ri == At(batches[b].outcome.results, i)
                    e == batches[b].entries[i]
                IN ri # "raise" =>
                      /\ e.state = IF ri \in {"E1"} THEN "rejected" ELSE "resolved"
                      /\ e.value = ri

C9_Witness ==
    \E b \in Batches :
        /\ batches[b].outcome.value = "array"
        /\ \E i, j \in 1 .. Len(batches[b].entries) :
              /\ i # j
              /\ batches[b].entries[i].state = "rejected"
              /\ batches[b].entries[i].value = "E1"
              /\ batches[b].entries[j].state = "resolved"
              /\ batches[b].entries[j].value = "v1"

----------------------------------------------------------------------------
(* C10: once the promise of a flush() is fulfilled, every item enqueued    *)
(* before that flush() has a settled promise.                              *)

C10_FlushBarrier ==
    \A f \in 1 .. Len(flushes) :
        flushes[f].done =>
            \A b \in Batches : \A i \in 1 .. Len(batches[b].entries) :
                batches[b].entries[i].id <= flushes[f].before =>
                    batches[b].entries[i].state # "pending"

\* a fulfilled flush that awaited an open batch and batches in flight, with
\* an item enqueued after it still pending
C10_Witness ==
    \E f \in 1 .. Len(flushes) :
        /\ flushes[f].done
        /\ Cardinality(flushes[f].waits) >= 2
        /\ Len(accepted) > flushes[f].before
        /\ \E c \in 1 .. Len(calls) : calls[c].by = "flush"

----------------------------------------------------------------------------
(* C11: flush() awaits exactly the batches that are in the registry when   *)
(* it is called; its promise can be fulfilled as soon as all of those have *)
(* left the registry, whatever batches were created since.                 *)

C11_Snapshot ==
    (Flush /\ Len(flushes') > Len(flushes)) => Last(flushes').waits = all

C11_Ready ==
    \A f \in 1 .. Len(flushes) :
        (~flushes[f].done /\ flushes[f].waits \cap all = {}) =>
            ENABLED FlushResolve(f)

C11_PointInTime == []C11_Ready /\ [][C11_Snapshot]_vars

\* a fulfilled flush that awaited a batch, while a batch created after the
\* flush is open and another is in flight
C11_Witness ==
    \E f \in 1 .. Len(flushes) :
        /\ flushes[f].done
        /\ flushes[f].waits # {}
        /\ current # None
        /\ current \notin flushes[f].waits
        /\ \E b \in Batches \ flushes[f].waits : batches[b].stage = "inflight"

----------------------------------------------------------------------------
(* C12: the promise of flush() is never rejected; it is fulfilled also     *)
(* when the invocation for an awaited batch failed or returned errors for  *)
(* items, and those failures are on the item promises.                     *)

C12_Delivered ==
    \A f \in 1 .. Len(flushes) :
        flushes[f].done =>
            \A b \in flushes[f].waits : \A i \in 1 .. Len(batches[b].entries) :
                LET e == batches[b].entries[i]
                    o == batches[b].outcome
                IN /\ o.kind = "reject" => (e.state = "rejected" /\ e.value = o.value)
                   /\ (o.kind = "fulfil" /\ lookup(o.results, i) \in ErrorValues) =>
                         e.state = "rejected"

C12_FlushNeverFails ==
    /\ C12_Delivered
    /\ \A f \in 1 .. Len(flushes) : ~flushes[f].rejected

\* a fulfilled flush that awaited a batch whose invocation failed and a batch
\* whose invocation did not
C12_Witness ==
    \E f \in 1 .. Len(flushes) :
        /\ flushes[f].done /\ ~flushes[f].rejected
        /\ \E b, c \in flushes[f].waits :
              /\ batches[b].outcome.kind = "reject"
              /\ batches[b].entries[1].state = "rejected"
              /\ batches[c].outcome.kind = "fulfil"

----------------------------------------------------------------------------
(* C13: release() that finds no open batch, called by the user or inside   *)
(* flush(), throws nothing, invokes nothing and leaves the open-batch      *)
(* slot, the batches with their timers and the registry as they were; any  *)
(* release() leaves no batch open and invokes fn at most once, so a second *)
(* release() in a row dispatches nothing.                                  *)

C13_NoOp ==
    /\ (Release /\ current = None) =>
          /\ thrown' = NoItem
          /\ UNCHANGED <<current, batches, all, calls, accepted, flushes, now>>
    /\ (Flush /\ current = None) =>
          /\ thrown' = NoItem
          /\ UNCHANGED <<current, batches, all, calls, accepted, now>>

C13_AtMostOne ==
    Release =>
        /\ current' = None
        /\ Len(calls') <= Len(calls) + 1
        /\ \A c \in 1 .. Len(calls) : calls'[c] = calls[c]

C13_ReleaseNoOp == [][C13_NoOp /\ C13_AtMostOne]_vars

\* release() dispatched a batch, then the release() inside flush() found no
\* open batch: the flush awaits the batch in flight and fn was invoked once
C13_Witness ==
    /\ current = None
    /\ Len(calls) = 1
    /\ calls[1].by = "release"
    /\ Len(flushes) = 1
    /\ flushes[1].waits = {calls[1].batch}
    /\ flushes[1].before = Len(accepted)
    /\ batches[calls[1].batch].stage = "inflight"

----------------------------------------------------------------------------
(* C14: with no thresholds, fn is invoked only within a release() or       *)
(* flush() step; as long as none was dispatched, every item accepted is in *)
(* the one open batch.                                                     *)

C14_Accumulated ==
    (NoThresholds /\ calls = <<>>) =>
        IF accepted = <<>>
        THEN current = None /\ batches = <<>>
        ELSE /\ current = 1
             /\ Len(batches) = 1
             /\ batches[1].stage = "open"
             /\ ItemsOf(batches[1].entries) = accepted

C14_Manual ==
    NoThresholds =>
        /\ calls' # calls => (Release \/ Flush)
        /\ \A item \in Items : Process(item) =>
              (calls' = calls /\ current' # None /\ all' = {current'})
                 \/ calls # <<>>

C14_NoThresholds == []C14_Accumulated /\ [][C14_Manual]_vars

C14_Witness ==
    /\ NoThresholds
    /\ calls = <<>>
    /\ Len(accepted) = MaxItems
    /\ current = 1
    /\ Len(batches[1].entries) = MaxItems

----------------------------------------------------------------------------
(* C15: the items passed to fn, invocation after invocation, followed by   *)
(* the items of the open batch are exactly the items accepted, in          *)
(* submission order; every submission is an entry of exactly one batch.    *)

Flatten(seqs) ==
    LET F[n \in 0 .. Len(seqs)] == IF n = 0 THEN <<>> ELSE F[n - 1] \o seqs[n]
    IN F[Len(seqs)]

Submissions == [i \in 1 .. Len(accepted) |-> i]

C15_Order ==
    LET opened == IF current = None THEN <<>> ELSE batches[current].entries
    IN /\ Flatten([c \in 1 .. Len(calls) |-> calls[c].items]) \o ItemsOf(opened)
             = accepted
       /\ Flatten([c \in 1 .. Len(calls) |-> calls[c].ids]) \o IdsOf(opened)
             = Submissions
       /\ Flatten([b \in Batches |-> IdsOf(batches[b].entries)]) = Submissions
       /\ Flatten([b \in Batches |-> ItemsOf(batches[b].entries)]) = accepted

\* two items of different sizes were dispatched together and a later item
\* is accumulating
C15_Witness ==
    /\ current # None
    /\ Len(batches[current].entries) >= 1
    /\ \E c \in 1 .. Len(calls) :
          /\ Len(calls[c].items) >= 2
          /\ calls[c].items[1] # calls[c].items[2]

----------------------------------------------------------------------------
(* C16 (as stated): the constructor throws exactly when one of the listed  *)
(* checks fails, with the error of the first failing check in the listed   *)
(* order, and then constructs nothing; otherwise it returns with the       *)
(* thresholds given, size.strict defaulting to true; count.max = 1,        *)
(* delay.max = 0 and size.max = 0 are accepted.                            *)
(* C16 (amended): the same with the check that options, when present, is a *)
(* non-null object, listed after the check of fn.                          *)

Present(x) == x.kind # "undefined"

IsObject(x) == x.kind = "object"

IsNumber(x) == x.kind = "number"

C16_Listed(a) ==
    LET count == a.options.count
        delay == a.options.delay
        size == a.options.size
    IN << [fails |-> a.fn.kind # "function",
           error |-> "processing function must be provided"],
          [fails |-> Present(count) /\ ~IsObject(count),
           error |-> "count must be an object"],
          [fails |-> IsObject(count) /\ (~IsNumber(count.max) \/ count.max.num < 1),
           error |-> "count.max must be a number greater than or equal to 1"],
          [fails |-> Present(delay) /\ ~IsObject(delay),
           error |-> "delay must be an object"],
          [fails |-> IsObject(delay) /\ (~IsNumber(delay.max) \/ delay.max.num < 0),
           error |-> "delay.max must be a number greater than or equal to 0"],
          [fails |-> Present(size) /\ ~IsObject(size),
           error |-> "size must be an object"],
          [fails |-> IsObject(size) /\ ~IsNumber(size.max),
           error |-> "size.max must be a number"],
          [fails |-> IsObject(size) /\ size.calculate.kind # "function",
           error |-> "if size.max is provided, size.calculate must also be provided"],
          [fails |-> IsObject(size) /\ Present(size.strict)
                        /\ size.strict.kind # "boolean",
           error |-> "size.strict must be a boolean"] >>

C16_OptionsCheck(a) ==
    [fails |-> Present(a.options) /\ ~IsObject(a.options),
     error |-> "options must be an object"]

C16_Amended(a) ==
    <<C16_Listed(a)[1], C16_OptionsCheck(a)>> \o Tail(C16_Listed(a))

FirstFailure(checks) ==
    IF \E i \in 1 .. Len(checks) : checks[i].fails
    THEN checks[CHOOSE i \in 1 .. Len(checks) :
                   /\ checks[i].fails
                   /\ \A j \in 1 .. (i - 1) : ~checks[j].fails].error
    ELSE NoFailure

C16_Thresholds(a) ==
    [count |-> IF Present(a.options.count) THEN a.options.count.max.num ELSE Absent,
     delay |-> IF Present(a.options.delay) THEN a.options.delay.max.num ELSE Absent,
     size |-> IF Present(a.options.size)
              THEN [max |-> a.options.size.max.num,
                    strict |-> IF Present(a.options.size.strict)
                               THEN a.options.size.strict = Boolean(TRUE)
                               ELSE TRUE]
              ELSE NoSize]

C16_Outcome(checks) ==
    /\ failure' = FirstFailure(checks)
    /\ IF failure' = NoFailure
       THEN options' = C16_Thresholds(args)
       ELSE UNCHANGED <<options, fn, current, batches, all, calls, accepted,
                        flushes, now, thrown>>

C16_Original == [][Construct => C16_Outcome(C16_Listed(args))]_vars

C16_Validation == [][Construct => C16_Outcome(C16_Amended(args))]_vars

\* the constructor threw for count.max = 0 although delay and size.calculate
\* were invalid too
C16_Witness ==
    /\ failure = "count.max must be a number greater than or equal to 1"
    /\ args.options.count = Threshold("object", Number(0))
    /\ args.options.delay.kind = "null"
    /\ IsObject(args.options.size)
    /\ args.options.size.calculate = UndefinedValue

----------------------------------------------------------------------------
(* C17: the entries of a batch are pending until the invocation for that   *)
(* batch settles; the step in which it settles resolves or rejects each of *)
(* them once and no step settles them again; batch.resolve() runs once,    *)
(* after that step; on every path.                                         *)

Rank(stage) ==
    CASE stage = "open" -> 0
      [] stage = "inflight" -> 1
      [] stage = "settled" -> 2
      [] stage = "resolved" -> 3
      [] stage = "deleted" -> 4

C17_Once ==
    \A b \in Batches : \A i \in 1 .. Len(batches[b].entries) :
        LET e == batches[b].entries[i] IN
        IF Rank(batches[b].stage) < 2
        THEN e.state = "pending" /\ e.settles = 0
        ELSE e.state \in {"resolved", "rejected"} /\ e.settles = 1

C17_OwnBatch ==
    \A b \in Batches :
        (\E i \in 1 .. Len(batches[b].entries) :
            batches'[b].entries[i] # batches[b].entries[i]) =>
            /\ batches[b].stage = "inflight"
            /\ batches'[b].stage = "settled"
            /\ \E o \in Outcomes : Settle(b, o)
            /\ \A other \in Batches \ {b} : batches'[other] = batches[other]

C17_Signal ==
    \A b \in Batches :
        batches'[b].stage # batches[b].stage =>
            /\ Rank(batches'[b].stage) = Rank(batches[b].stage) + 1
            /\ batches'[b].stage = "resolved" =>
                  /\ Finally(b)
                  /\ \A i \in 1 .. Len(batches[b].entries) :
                        batches[b].entries[i].settles = 1

C17_Steps ==
    batches' # batches => (C17_OwnBatch /\ C17_Signal)

C17_ExactlyOnce == []C17_Once /\ [][C17_Steps]_vars

\* batch.resolve() has run for a batch whose invocation failed and for a
\* batch with one entry resolved and one rejected with its own result
C17_Witness ==
    \E b, c \in Batches :
        /\ Rank(batches[b].stage) >= 3 /\ Rank(batches[c].stage) >= 3
        /\ batches[b].outcome.kind = "reject"
        /\ batches[c].outcome.kind = "fulfil"
        /\ \E i, j \in 1 .. Len(batches[c].entries) :
              /\ batches[c].entries[i].state = "resolved"
              /\ batches[c].entries[j].state = "rejected"

----------------------------------------------------------------------------
(* C18: the registry holds exactly the batches created and not yet         *)
(* deleted, the open batch among them; a batch enters it in the step that  *)
(* creates it and leaves it only in the reaction that follows              *)
(* batch.resolve(), and once batch.resolve() has run it does leave it.     *)

C18_Members ==
    /\ all = {b \in Batches : batches[b].stage # "deleted"}
    /\ current # None => (current \in all /\ batches[current].stage = "open")
    /\ \A b \in Batches : batches[b].stage = "open" => b = current

C18_InAndOut ==
    \A b \in 1 .. Len(batches') :
        /\ (b \in all' /\ b \notin all) =>
              (b = Len(batches) + 1 /\ current' = b)
        /\ (b \in all /\ b \notin all') =>
              (batches[b].stage = "resolved" /\ Delete(b))

C18_Leaves ==
    \A b \in 1 .. MaxItems :
        (b \in Batches /\ batches[b].stage = "resolved") ~> (b \notin all)

C18_Registry == []C18_Members /\ [][C18_InAndOut]_vars /\ C18_Leaves

\* the registry holds the open batch and a batch whose invocation has
\* settled, and no longer a batch that was deleted from it
C18_Witness ==
    /\ current # None
    /\ \E b, c \in Batches :
          /\ batches[b].stage = "deleted" /\ b \notin all
          /\ batches[c].stage = "resolved" /\ c \in all
          /\ all = {c, current}

----------------------------------------------------------------------------
(* C19: when the invocation for a batch returns undefined or null, every   *)
(* entry of the batch is resolved with undefined; when it returns an array *)
(* shorter than the batch, every entry beyond its end is resolved with     *)
(* undefined.                                                              *)

C19_AbsentOrShort ==
    \A b \in Batches :
        batches[b].outcome.kind = "fulfil" =>
            \A i \in 1 .. Len(batches[b].entries) :
                LET e == batches[b].entries[i]
                    o == batches[b].outcome
                IN (o.value \in {Undefined, Null} \/ i > Len(o.results)) =>
                      (e.state = "resolved" /\ e.value = Undefined)

\* an array of MaxResults results was returned for a longer batch
C19_Witness ==
    \E b \in Batches :
        /\ batches[b].outcome.value = "array"
        /\ Len(batches[b].outcome.results) = MaxResults
        /\ Len(batches[b].entries) > MaxResults
        /\ Last(batches[b].entries).state = "resolved"
        /\ Last(batches[b].entries).value = Undefined

\* null was returned for a batch of two
C19_NullReturned ==
    \E b \in Batches :
        /\ batches[b].outcome.value = Null
        /\ Len(batches[b].entries) >= 2
        /\ batches[b].entries[2].state = "resolved"

----------------------------------------------------------------------------
(* C20 (as stated): when the invocation for a batch returns an array and   *)
(* the lookup of the result at an index raises, the entry at that index is *)
(* resolved with undefined.                                                *)
(* C20 (amended): that entry is rejected with the error the lookup raised; *)
(* the entries at the other indices are settled with their own results.    *)

Raises(b, i) ==
    /\ batches[b].outcome.kind = "fulfil"
    /\ batches[b].outcome.value = "array"
    /\ i <= Len(batches[b].outcome.results)
    /\ batches[b].outcome.results[i] = "raise"

C20_Original ==
    \A b \in Batches : \A i \in 1 .. Len(batches[b].entries) :
        Raises(b, i) =>
            /\ batches[b].entries[i].state = "resolved"
            /\ batches[b].entries[i].value = Undefined

C20_LookupError ==
    \A b \in Batches : \A i \in 1 .. Len(batches[b].entries) :
        Raises(b, i) =>
            /\ batches[b].entries[i].state = "rejected"
            /\ batches[b].entries[i].value = "XE"
            /\ \A j \in 1 .. Len(batches[b].entries) :
                  ~Raises(b, j) =>
                      LET rj == At(batches[b].outcome.results, j) IN
                      /\ batches[b].entries[j].value = rj
                      /\ batches[b].entries[j].state =
                            IF rj = "E1" THEN "rejected" ELSE "resolved"

\* the lookup raised for the first of two entries and the second was
\* resolved with its value
C20_Witness ==
    \E b \in Batches :
        /\ Len(batches[b].entries) >= 2
        /\ Raises(b, 1)
        /\ batches[b].entries[1].state = "rejected"
        /\ batches[b].entries[1].value = "XE"
        /\ batches[b].entries[2].state = "resolved"
        /\ batches[b].entries[2].value = "v1"

----------------------------------------------------------------------------
(* C21: under a size threshold the size kept for a batch is the sum of     *)
(* calculate(item) over its entries.  With strict = true and no negative   *)
(* item size, the open batch never holds more than size.max and no batch   *)
(* handed to the processing function totals more than size.max; with       *)
(* strict = false a batch handed over totals more than size.max only when  *)
(* it holds exactly one item.                                              *)

RECURSIVE Sum(_)
Sum(sizes) == IF sizes = <<>> THEN 0 ELSE sizes[1] + Sum(Tail(sizes))

\* the total calculated size of a sequence of items
Total(items) == Sum([i \in 1 .. Len(items) |-> calculate(items[i])])

C21_Tracked ==
    HasSize => \A b \in Batches :
        batches[b].size = Total(ItemsOf(batches[b].entries))

C21_OpenCap ==
    (Strict /\ NonNegative /\ current # None) =>
        Total(ItemsOf(batches[current].entries)) <= options.size.max

C21_CallCap ==
    (Strict /\ NonNegative) =>
        \A c \in 1 .. Len(calls) : Total(calls[c].items) <= options.size.max

C21_Single ==
    (HasSize /\ ~options.size.strict /\ NonNegative) =>
        \A c \in 1 .. Len(calls) :
            Total(calls[c].items) > options.size.max => Len(calls[c].items) = 1

C21_SizeCap == C21_Tracked /\ C21_OpenCap /\ C21_CallCap /\ C21_Single

\* strict: a batch of two items that fills size.max exactly was handed
\* over and a batch holding less than size.max is accumulating
C21_Witness ==
    /\ Strict /\ NonNegative
    /\ \E c \in 1 .. Len(calls) :
          /\ Len(calls[c].items) >= 2
          /\ Total(calls[c].items) = options.size.max
    /\ current # None
    /\ batches[current].size > 0

\* not strict: a batch of two items and a batch of one item larger than
\* size.max were handed over
C21_SingleOversize ==
    /\ HasSize /\ ~options.size.strict /\ NonNegative
    /\ \E c \in 1 .. Len(calls) : Len(calls[c].items) >= 2
    /\ \E c \in 1 .. Len(calls) :
          /\ Len(calls[c].items) = 1
          /\ Total(calls[c].items) > options.size.max

----------------------------------------------------------------------------
(* C22: between two operations the open batch, if there is one, holds at   *)
(* least one entry, and no invocation of the processing function was given *)
(* an empty sequence of items, whatever the thresholds and whatever called *)
(* release().                                                              *)

C22_OpenHasEntry ==
    current # None =>
        /\ current \in Batches
        /\ batches[current].stage = "open"
        /\ Len(batches[current].entries) >= 1

C22_CallHasItem ==
    \A c \in 1 .. Len(calls) :
        /\ Len(calls[c].items) >= 1
        /\ calls[c].batch \in Batches
        /\ calls[c].items = ItemsOf(batches[calls[c].batch].entries)

C22_NoEmptyDispatch == C22_OpenHasEntry /\ C22_CallHasItem

\* what called release() for the invocations so far
Triggers == {calls[c].by : c \in 1 .. Len(calls)}

\* three batches were handed over, each by another caller of release(), one
\* of them the pre-append check or the timer
C22_Witness ==
    /\ Cardinality(Triggers) >= 3
    /\ Triggers \cap {"overflow", "timer"} # {}

----------------------------------------------------------------------------
(* C23: when process(item) itself hands over the batch holding item (count *)
(* or size threshold reached on append), no reaction of that invocation    *)
(* has run when process() returns: the batch is in flight, its entries are *)
(* pending and none of their handles has been called.  Every entry a       *)
(* reaction meets has its handles, so that the item that triggered the     *)
(* release is settled once, with its mapped outcome, like the other        *)
(* entries of its batch.                                                   *)

\* what the reactions make of a pending entry, at index i of a batch whose
\* invocation settled as outcome
Mapped(outcome, entry, i) ==
    LET pending == [entry EXCEPT !.state = "pending", !.value = Undefined,
                                 !.settles = 0]
    IN IF outcome.kind = "reject" THEN failEntry(outcome, pending, i)
       ELSE mapResult(outcome, pending, i)

\* the invocations process() itself made in this step for the batch holding
\* the item it was given
OwnCalls ==
    {c \in (Len(calls) + 1) .. Len(calls') :
        Last(calls'[c].ids) = Len(accepted) + 1}

C23_Return ==
    \A item \in Items :
        Process(item) => \A c \in OwnCalls :
            LET batch == batches'[calls'[c].batch] IN
            /\ calls'[c].by \in {"count", "size"}
            /\ batch.stage = "inflight"
            /\ batch.outcome = NoOutcome
            /\ \A i \in 1 .. Len(batch.entries) :
                  /\ batch.entries[i].state = "pending"
                  /\ batch.entries[i].settles = 0

C23_Installed ==
    \A b \in Batches : \A i \in 1 .. Len(batches[b].entries) :
        /\ installed(batches[b].entries[i])
        /\ batches[b].stage \in {"open", "inflight"} =>
              /\ batches[b].entries[i].state = "pending"
              /\ batches[b].entries[i].settles = 0

C23_Settled ==
    \A c \in 1 .. Len(calls) :
        LET batch == batches[calls[c].batch] IN
        (calls[c].by \in {"count", "size"}
            /\ batch.stage \in {"settled", "resolved", "deleted"}) =>
            \A i \in 1 .. Len(batch.entries) :
                batch.entries[i] = Mapped(batch.outcome, batch.entries[i], i)

C23_ReturnsFirst == []C23_Installed /\ []C23_Settled /\ [][C23_Return]_vars

\* a batch of two that process() handed over has completed, and the item
\* that triggered the release was given the second of the results
C23_Witness ==
    \E c \in 1 .. Len(calls) :
        LET batch == batches[calls[c].batch] IN
        /\ calls[c].by \in {"count", "size"}
        /\ Len(batch.entries) = 2
        /\ batch.stage = "resolved"
        /\ batch.outcome.value = "array"
        /\ batch.entries[1].state = "rejected"
        /\ batch.entries[2].state = "resolved"
        /\ batch.entries[2].value = "v1"
        /\ batch.entries[2].settles = 1

----------------------------------------------------------------------------
(* C24: when every invocation of the processing function completes, every  *)
(* promise returned by flush() is resolved at some time and every item     *)
(* accepted before that flush() has its promise settled at some time; a    *)
(* flush() called while the registry is empty invokes nothing and waits    *)
(* for nothing; and when flush() has returned no batch is open.            *)

\* flush() was called at least f times
Flushed(f) == Len(flushes) >= f

\* the promise of the item accepted as the n-th is settled
ItemSettled(n) ==
    \E b \in Batches : \E i \in 1 .. Len(batches[b].entries) :
        /\ batches[b].entries[i].id = n
        /\ batches[b].entries[i].state # "pending"

C24_Drained(f) ==
    /\ Flushed(f)
    /\ flushes[f].done
    /\ ~flushes[f].rejected
    /\ \A n \in 1 .. flushes[f].before : ItemSettled(n)

C24_Eventually == \A f \in 1 .. MaxFlush : Flushed(f) ~> C24_Drained(f)

C24_FlushStep ==
    Flush =>
        /\ current' = None
        /\ all = {} =>
              /\ calls' = calls
              /\ Last(flushes').waits = {}
              /\ promiseAll(Last(flushes').waits) = "fulfilled"

C24_FlushLiveness == [][C24_FlushStep]_vars /\ C24_Eventually

\* a flush() that waited for a batch in flight and for the batch it
\* released itself is resolved, one invocation having failed
C24_Witness ==
    \E f \in 1 .. Len(flushes) :
        /\ C24_Drained(f)
        /\ Cardinality(flushes[f].waits) >= 2
        /\ flushes[f].before >= 2
        /\ \E b \in flushes[f].waits : batches[b].outcome.kind = "reject"
        /\ \E c \in 1 .. Len(calls) :
              calls[c].by = "flush" /\ calls[c].batch \in flushes[f].waits

\* a flush() called on an empty registry is resolved and nothing was invoked
C24_EmptyFlush ==
    \E f \in 1 .. Len(flushes) :
        /\ flushes[f].waits = {}
        /\ flushes[f].done
        /\ calls = <<>>

====
